---- MODULE Spec2Model ----
(***************************************************************************)
(* A model of the zpl package: the Label command-buffer builder            *)
(* (src/zpl/label.py), the run-length codec (src/zpl/utils.py) and the     *)
(* Printer queries with the TCP transport (src/zpl/printer.py).            *)
(*                                                                         *)
(* Python strings are sequences of one-character strings, so that slicing, *)
(* substring tests and concatenation act on characters as they do in the   *)
(* source.  Millimetre quantities and dpmm are carried in tenths (25 is    *)
(* 2.5 mm, 120 is 12.0 dots per mm), so that a product of the two is in    *)
(* hundredths of a dot and "%i" is the integer part of it.                 *)
(***************************************************************************)
EXTENDS Integers, Sequences, FiniteSets, TLC

VARIABLES
    code,          \* Label.code, the command buffer
    height,        \* Label.height (tenths of a millimetre)
    width,         \* Label.width  (tenths of a millimetre)
    dpmm,          \* Label.dpmm   (tenths of a dot per millimetre)
    call,          \* the last call on the Label or Printer: name and arguments
    raised,        \* the exception that call raised, or "none"
    ret,           \* the value that call returned (None for the builders)
    calls,         \* the names of the calls made so far, in order
    zpl_data,      \* compress_zpl_data: its argument
    i,             \* compress_zpl_data: the scan position (0-based)
    zipped_data,   \* compress_zpl_data: the output built so far
    pc,            \* compress_zpl_data: "loop" while scanning, "done" after return
    _info,         \* Printer._info, the cached ~HI record
    _cfg,          \* Printer._cfg, the cached ^HH record
    _stat,         \* Printer._stat, the cached ~HS record
    requests,      \* the commands passed to request_info so far, in order
    buf,           \* TCPPrinter.request_info: the bytes received so far
    peer,          \* the remote end of the socket: "open" or "closed"
    sock_pc,       \* TCPPrinter.request_info: the position in the method
    sent           \* TCPPrinter.request_info: the sendall calls made

vars == <<code, height, width, dpmm, call, raised, ret, calls,
          zpl_data, i, zipped_data, pc,
          _info, _cfg, _stat, requests, buf, peer, sock_pc, sent>>

labelVars == <<code, height, width, dpmm, call, raised, ret, calls>>
codecVars == <<zpl_data, i, zipped_data, pc>>
printerVars == <<_info, _cfg, _stat, requests>>
socketVars == <<buf, peer, sock_pc, sent>>

\* Printer.__init__: the three caches are empty dicts, nothing was requested
Printer__init__ ==
    /\ _info = <<>>
    /\ _cfg = <<>>
    /\ _stat = <<>>
    /\ requests = <<>>

\* a TCPPrinter on which request_info has not been called
NoRequest ==
    /\ buf = <<>>
    /\ peer = "open"
    /\ sock_pc = "idle"
    /\ sent = 0

-----------------------------------------------------------------------------
(* Bounds of the model.                                                    *)

\* the number of calls made on one Label
MaxOps == 4
\* the number of calls made on one Label where the arguments range widely
MaxChecked == 2
\* the longest single run given to compress_zpl_data
MaxRun == 830
\* the longest run in an input made of two runs
MaxShort == 22
\* the longest input in which every character is chosen freely
MaxLen == 5

-----------------------------------------------------------------------------
(* Python values and string operations.                                    *)

\* None, as a value comparable with strings
None == <<"None">>

DigitChars == <<"0", "1", "2", "3", "4", "5", "6", "7", "8", "9">>

Upper == {"A", "B", "C", "D", "E", "F", "G", "H", "I", "J", "K", "L", "M",
          "N", "O", "P", "Q", "R", "S", "T", "U", "V", "W", "X", "Y", "Z"}

Digits == {DigitChars[k] : k \in 1..10}

\* sub in s, for two strings: s holds sub as a contiguous piece
IsSubstring(sub, s) ==
    \E k \in 0..(Len(s) - Len(sub)) : SubSeq(s, k + 1, k + Len(sub)) = sub

\* s[a:b], for 0 <= a and 0 <= b
Slice(s, a, b) ==
    LET lo == IF a > Len(s) THEN Len(s) ELSE a
        hi == IF b > Len(s) THEN Len(s) ELSE b
    IN SubSeq(s, lo + 1, hi)

\* str(n) and "%i" % n for an integer n >= 0
RECURSIVE fmt_i(_)
fmt_i(n) ==
    IF n < 10 THEN <<DigitChars[n + 1]>>
    ELSE fmt_i(n \div 10) \o <<DigitChars[(n % 10) + 1]>>

\* "%i" % (x*dpmm): the product of two non-negative quantities given in
\* tenths, cut to its integer part
dots(x, scale) == (x * scale) \div 100

pct_i(x, scale) == fmt_i(dots(x, scale))

\* the number of places where s holds p
Occurrences(p, s) ==
    Cardinality({k \in 0..(Len(s) - Len(p)) : SubSeq(s, k + 1, k + Len(p)) = p})

StartsWith(s, p) == Len(s) >= Len(p) /\ SubSeq(s, 1, Len(p)) = p

EndsWith(s, p) ==
    Len(s) >= Len(p) /\ SubSeq(s, Len(s) - Len(p) + 1, Len(s)) = p

-----------------------------------------------------------------------------
(* Fragments of the command language.                                      *)

XA == <<"^", "X", "A">>
XZ == <<"^", "X", "Z">>
FS == <<"^", "F", "S">>
PW == <<"^", "P", "W">>
LL == <<"^", "L", "L">>
LH == <<"^", "L", "H">>
FO == <<"^", "F", "O">>
FB == <<"^", "F", "B">>
FD == <<"^", "F", "D">>
CF == <<"^", "C", "F">>
DF == <<"^", "D", "F">>
Comma == <<",">>

-----------------------------------------------------------------------------
(* The Label object and the outcome of a call on it.                       *)

Label == [code |-> code, height |-> height, width |-> width, dpmm |-> dpmm]

\* the call returned value v, leaving the object as self
Return(self, v) == [self |-> self, raised |-> "none", ret |-> v]

\* the call raised exception e, leaving the object as self
Raise(self, e) == [self |-> self, raised |-> e, ret |-> None]

\* self.code += s
Emit(self, s) == [self EXCEPT !.code = @ \o s]

\* Label(height, width, dpmm)
Label__init__(h, w, d) ==
    [code |-> XA \o PW \o pct_i(w, d) \o LL \o pct_i(h, d),
     height |-> h, width |-> w, dpmm |-> d]

\* the shared tail of labelhome and origin: the optional justification
Justify012(self, justification) ==
    IF justification # None
    THEN IF IsSubstring(justification, <<"0", "1", "2">>)
         THEN Return(Emit(self, Comma \o justification), None)
         ELSE Raise(self, "AssertionError")
    ELSE Return(self, None)

labelhome(self, x, y, justification) ==
    Justify012(Emit(self, LH \o pct_i(x, self.dpmm) \o Comma \o pct_i(y, self.dpmm)),
               justification)

origin(self, x, y, justification) ==
    Justify012(Emit(self, FO \o pct_i(x, self.dpmm) \o Comma \o pct_i(y, self.dpmm)),
               justification)

\* the reading of endorigin that closes nothing
endorigin_silent(self) == Return(self, None)

endorigin(self) == Return(Emit(self, FS), None)

zpl_raw(self, commands) == Return(Emit(self, commands), None)

\* a dumpZPL that stores the terminated document back into the buffer
dumpZPL_storing(self) == Return(Emit(self, XZ), self.code \o XZ)

dumpZPL(self) == Return(self, self.code \o XZ)

\* a saveFormat that puts the command in front of the whole buffer
saveFormat_prepending(self, name) ==
    Return([self EXCEPT !.code = DF \o name \o FS \o self.code], None)

\* a saveFormat that appends the command, as every other builder does
saveFormat_appending(self, name) ==
    Return(Emit(self, DF \o name \o FS), None)

saveFormat(self, name) ==
    Return([self EXCEPT !.code = Slice(self.code, 0, 3) \o (DF \o name \o FS)
                                  \o Slice(self.code, 3, Len(self.code))],
           None)

-----------------------------------------------------------------------------
(* Text.                                                                   *)

NRIB == <<"N", "R", "I", "B">>
LCRJ == <<"L", "C", "R", "J">>

\* "%c" % s accepts a string of exactly one character
pct_c_ok(s) == Len(s) = 1

\* re.match(r'^[A-Z0-9]$', font), for a font without a newline
match_builtin_font(font) == Len(font) = 1 /\ font[1] \in Upper \cup Digits

\* the length of the longest prefix of s[k..] made of [A-Z0-9_]
RECURSIVE word_run(_, _)
word_run(s, k) ==
    IF k <= Len(s) /\ s[k] \in Upper \cup Digits \cup {"_"}
    THEN 1 + word_run(s, k + 1)
    ELSE 0

\* re.match(r'[REBA]?:[A-Z0-9\_]+\.(FNT|TTF|TTE)', font): anchored at the
\* start of font only, so text may follow the extension
match_font_file(font) ==
    LET c == IF Len(font) >= 1 /\ font[1] \in {"R", "E", "B", "A"} THEN 2 ELSE 1
        n == word_run(font, c + 1)
    IN /\ Len(font) >= c
       /\ font[c] = ":"
       /\ n >= 1
       /\ Len(font) >= c + n + 4
       /\ font[c + n + 1] = "."
       /\ SubSeq(font, c + n + 2, c + n + 4)
              \in {<<"F", "N", "T">>, <<"T", "T", "F">>, <<"T", "T", "E">>}

\* write_text, lines 100-109: the font command
write_text_font(self, char_height, char_width, font, orientation) ==
    IF char_height # 0 /\ char_width # 0 /\ font # <<>> /\ orientation # <<>>
    THEN IF ~ IsSubstring(orientation, NRIB)
         THEN Raise(self, "AssertionError")
         ELSE IF match_builtin_font(font)
         THEN IF pct_c_ok(font) /\ pct_c_ok(orientation)
              THEN Return(Emit(self, <<"^", "A">> \o font \o orientation \o Comma
                                     \o pct_i(char_height, self.dpmm) \o Comma
                                     \o pct_i(char_width, self.dpmm)), None)
              ELSE Raise(self, "TypeError")
         ELSE IF match_font_file(font)
         THEN IF pct_c_ok(orientation)
              THEN Return(Emit(self, <<"^", "A", "@">> \o orientation \o Comma
                                     \o pct_i(char_height, self.dpmm) \o Comma
                                     \o pct_i(char_width, self.dpmm) \o Comma
                                     \o font), None)
              ELSE Raise(self, "TypeError")
         ELSE Raise(self, "ValueError")
    ELSE Return(self, None)

\* write_text, lines 110-113: the field block
write_text_block(self, line_width, max_line, line_spaces, justification, hanging_indent) ==
    IF line_width # 0
    THEN IF ~ IsSubstring(justification, LCRJ)
         THEN Raise(self, "AssertionError")
         ELSE IF pct_c_ok(justification)
         THEN Return(Emit(self, FB \o pct_i(line_width, self.dpmm) \o Comma
                                \o fmt_i(max_line) \o Comma \o fmt_i(line_spaces)
                                \o Comma \o justification \o Comma
                                \o fmt_i(hanging_indent)), None)
         ELSE Raise(self, "TypeError")
    ELSE Return(self, None)

\* write_text, lines 114-120: the field data
write_text_data(self, text, justification, qrcode) ==
    LET s1 == IF qrcode THEN Emit(self, FD \o <<"Q", "A", ",">> \o text)
              ELSE Emit(self, FD \o text)
    IN IF justification = <<"C">> THEN Return(Emit(s1, <<"\\", "&">>), None)
       ELSE Return(s1, None)

\* char_height, char_width and line_width: 0 stands for None as well, both
\* being false where the code tests them
write_text(self, text, char_height, char_width, font, orientation, line_width, max_line, line_spaces, justification, hanging_indent, qrcode) ==
    LET r1 == write_text_font(self, char_height, char_width, font, orientation)
        r2 == write_text_block(r1.self, line_width, max_line, line_spaces,
                               justification, hanging_indent)
    IN IF r1.raised # "none" THEN r1
       ELSE IF r2.raised # "none" THEN r2
       ELSE write_text_data(r2.self, text, justification, qrcode)

textblock(self, width_mm, justification, lines) ==
    IF justification \in {<<"L">>, <<"R">>, <<"C">>, <<"J">>}
    THEN Return(Emit(self, FB \o pct_i(width_mm, self.dpmm) \o Comma \o fmt_i(lines)
                           \o Comma \o fmt_i(0) \o Comma \o justification
                           \o Comma \o fmt_i(0)), None)
    ELSE Raise(self, "AssertionError")

\* re.match(r'[A-Z0-9]', font): the first character alone is tested
set_default_font(self, height_mm, width_mm, font) ==
    IF Len(font) >= 1 /\ font[1] \in Upper \cup Digits
    THEN IF pct_c_ok(font)
         THEN Return(Emit(self, CF \o font \o Comma \o pct_i(height_mm, self.dpmm)
                                \o Comma \o pct_i(width_mm, self.dpmm)), None)
         ELSE Raise(self, "TypeError")
    ELSE Raise(self, "AssertionError")

-----------------------------------------------------------------------------
(* Barcodes.                                                               *)

\* the seven symbologies the barcode docstring lists
SupportedBarcodes == {<<"2">>, <<"3">>, <<"Q">>, <<"U">>, <<"C">>, <<"E">>, <<"X">>}

\* the string of the guard in barcode and write_barcode
GuardString == <<"2", "3", "A", "Q", "U", "C", "E", "X">>

\* the outcome of computing a string: the string, or the exception raised
Str(s) == [raised |-> "none", str |-> s]
StrRaise(e) == [raised |-> e, str |-> <<>>]

\* errorCorrection in 'HQML'
errorCorrection_ok(errorCorrection) ==
    IsSubstring(errorCorrection, <<"H", "Q", "M", "L">>)

\* magnification in [1, ..., 10, '1', ..., '10'], for an integer
magnification_ok(magnification) == magnification \in 1..10

\* mask in [1, ..., 7, '1', ..., '7'], for a string
mask_ok(mask) == mask \in {<<DigitChars[k + 1]>> : k \in 1..7}

\* _barcode_config for an integer height, an integer magnification and a
\* string mask; the other arguments are strings
barcode_config(bar_height, barcode_type, orientation, check_digit, print_interpretation_line, print_interpretation_line_above, magnification, errorCorrection, mask, mode) ==
    LET head == <<"^", "B">> \o barcode_type \o orientation
    IN IF IsSubstring(barcode_type, <<"2", "A">>)
       THEN Str(head \o Comma \o fmt_i(bar_height) \o Comma \o print_interpretation_line
                \o Comma \o print_interpretation_line_above \o Comma \o check_digit)
       ELSE IF barcode_type = <<"3">>
       THEN Str(head \o Comma \o check_digit \o Comma \o fmt_i(bar_height) \o Comma
                \o print_interpretation_line \o Comma \o print_interpretation_line_above)
       ELSE IF barcode_type = <<"Q">>
       THEN IF orientation # <<"N">> THEN StrRaise("AssertionError")
            ELSE IF ~ magnification_ok(magnification) THEN StrRaise("AssertionError")
            ELSE IF ~ errorCorrection_ok(errorCorrection) THEN StrRaise("AssertionError")
            ELSE IF ~ mask_ok(mask) THEN StrRaise("AssertionError")
            ELSE Str(head \o Comma \o fmt_i(2) \o Comma \o fmt_i(magnification)
                     \o Comma \o errorCorrection \o Comma \o mask)
       ELSE IF barcode_type = <<"U">>
       THEN Str(head \o Comma \o fmt_i(bar_height) \o Comma \o print_interpretation_line
                \o Comma \o print_interpretation_line_above \o Comma \o check_digit)
       ELSE IF barcode_type = <<"C">>
       THEN Str(head \o Comma \o fmt_i(bar_height) \o Comma \o print_interpretation_line
                \o Comma \o print_interpretation_line_above \o Comma \o check_digit
                \o Comma \o mode)
       ELSE IF barcode_type = <<"E">>
       THEN Str(head \o Comma \o fmt_i(bar_height) \o Comma \o print_interpretation_line
                \o Comma \o print_interpretation_line_above)
       ELSE IF barcode_type = <<"X">>
       THEN Str(head \o Comma \o fmt_i(bar_height) \o Comma \o <<"2", "0", "0">>)
       ELSE StrRaise("UnboundLocalError")

write_barcode(self, bar_height, barcode_type, orientation, check_digit, print_interpretation_line, print_interpretation_line_above, magnification, errorCorrection, mask, mode) ==
    IF ~ IsSubstring(barcode_type, GuardString) THEN Raise(self, "AssertionError")
    ELSE LET cfg == barcode_config(bar_height, barcode_type, orientation, check_digit,
                        print_interpretation_line, print_interpretation_line_above,
                        magnification, errorCorrection, mask, mode)
         IN IF cfg.raised # "none" THEN Raise(self, cfg.raised)
            ELSE Return(Emit(self, cfg.str), None)

barcode(self, barcode_type, data, bar_height, orientation, check_digit, print_interpretation_line, print_interpretation_line_above, magnification, errorCorrection, mask, mode) ==
    IF ~ IsSubstring(barcode_type, GuardString) THEN Raise(self, "AssertionError")
    ELSE LET cfg == barcode_config(bar_height, barcode_type, orientation, check_digit,
                        print_interpretation_line, print_interpretation_line_above,
                        magnification, errorCorrection, mask, mode)
         IN IF cfg.raised # "none" THEN Raise(self, cfg.raised)
            ELSE IF IsSubstring(barcode_type, <<"2", "3", "A", "U", "C", "E", "X">>)
            THEN Return(Emit(Emit(self, cfg.str), FD \o data), None)
            ELSE IF IsSubstring(barcode_type, <<"Q">>)
            THEN Return(Emit(Emit(self, cfg.str),
                             FD \o errorCorrection \o <<"A", ",">> \o data), None)
            ELSE Return(Emit(self, cfg.str), None)

-----------------------------------------------------------------------------
(* The calls on a Label, as actions.                                       *)

\* the state after a call with outcome r; c records the call
Apply(r, c) ==
    /\ code' = r.self.code
    /\ height' = r.self.height
    /\ width' = r.self.width
    /\ dpmm' = r.self.dpmm
    /\ raised' = r.raised
    /\ ret' = r.ret
    /\ call' = c
    /\ calls' = Append(calls, c.op)
    /\ UNCHANGED <<codecVars, printerVars, socketVars>>

\* Label(h, w, d) for h in Hs, w in Ws and d in Ds
InitLabel(Hs, Ws, Ds) ==
    /\ \E h \in Hs, w \in Ws, d \in Ds :
          /\ code = Label__init__(h, w, d).code
          /\ height = Label__init__(h, w, d).height
          /\ width = Label__init__(h, w, d).width
          /\ dpmm = Label__init__(h, w, d).dpmm
          /\ call = [op |-> "__init__", height |-> h, width |-> w, dpmm |-> d]
    /\ raised = "none"
    /\ ret = None
    /\ calls = <<>>
    /\ zpl_data = <<>>
    /\ i = 0
    /\ zipped_data = <<>>
    /\ pc = "idle"
    /\ Printer__init__
    /\ NoRequest

LabelHome(Xs, Ys, Js) ==
    \E x \in Xs, y \in Ys, j \in Js :
        Apply(labelhome(Label, x, y, j),
              [op |-> "labelhome", x |-> x, y |-> y, justification |-> j])

Origin(Xs, Ys, Js) ==
    \E x \in Xs, y \in Ys, j \in Js :
        Apply(origin(Label, x, y, j),
              [op |-> "origin", x |-> x, y |-> y, justification |-> j])

EndOrigin == Apply(endorigin(Label), [op |-> "endorigin"])

ZplRaw(Cs) ==
    \E c \in Cs : Apply(zpl_raw(Label, c), [op |-> "zpl_raw", commands |-> c])

\* write_text with max_line, line_spaces, hanging_indent and qrcode at
\* their defaults
WriteText(Ts, CHs, CWs, Fs, Os, LWs, Js) ==
    \E t \in Ts, ch \in CHs, cw \in CWs, f \in Fs, o \in Os, lw \in LWs, j \in Js :
        Apply(write_text(Label, t, ch, cw, f, o, lw, 1, 0, j, 0, FALSE),
              [op |-> "write_text", text |-> t, char_height |-> ch,
               char_width |-> cw, font |-> f, orientation |-> o,
               line_width |-> lw, justification |-> j])

TextBlock(Ws, Js) ==
    \E w \in Ws, j \in Js :
        Apply(textblock(Label, w, j, 1),
              [op |-> "textblock", width |-> w, justification |-> j])

SetDefaultFont(Hs, Ws, Fs) ==
    \E h \in Hs, w \in Ws, f \in Fs :
        Apply(set_default_font(Label, h, w, f),
              [op |-> "set_default_font", height |-> h, width |-> w, font |-> f])

\* barcode with data "12", height, check_digit, the interpretation lines
\* and mode at their defaults
Barcode(Bs, Os, Ms, Es, Ks) ==
    \E b \in Bs, o \in Os, m \in Ms, e \in Es, k \in Ks :
        Apply(barcode(Label, b, <<"1", "2">>, 70, o, <<"N">>, <<"Y">>, <<"N">>,
                      m, e, k, <<"N">>),
              [op |-> "barcode", barcode_type |-> b, orientation |-> o,
               magnification |-> m, errorCorrection |-> e, mask |-> k])

\* write_barcode with height 70 and the same defaults
WriteBarcode(Bs, Os, Ms, Es, Ks) ==
    \E b \in Bs, o \in Os, m \in Ms, e \in Es, k \in Ks :
        Apply(write_barcode(Label, 70, b, o, <<"N">>, <<"Y">>, <<"N">>,
                            m, e, k, <<"N">>),
              [op |-> "write_barcode", barcode_type |-> b, orientation |-> o,
               magnification |-> m, errorCorrection |-> e, mask |-> k])

SaveFormat(Ns) ==
    \E n \in Ns : Apply(saveFormat(Label, n), [op |-> "saveFormat", name |-> n])

DumpZPL == Apply(dumpZPL(Label), [op |-> "dumpZPL"])

-----------------------------------------------------------------------------
(* Spec: a Label driven through the builder calls that decide where the    *)
(* markers of the document stand.                                          *)

\* 2.5 mm and 0.5 mm against 12.0 and 11.9 dots per mm
Init == InitLabel({255}, {1100}, {120, 119})

RawCommands == {<<"^", "F", "R">>, XZ}

Next ==
    \/ Len(calls) < MaxOps /\ Origin({0, 25}, {5}, {None, <<"0">>, <<"3">>})
    \/ Len(calls) < MaxOps /\ EndOrigin
    \/ Len(calls) < MaxOps /\ ZplRaw(RawCommands)
    \/ Len(calls) < MaxOps /\ WriteText({<<"T">>}, {0}, {0}, {<<"0">>}, {<<"N">>},
                                        {0}, {<<"L">>})
    \/ Len(calls) < MaxOps /\ SaveFormat({<<"F">>, <<"R", ":", "A">>})
    \/ Len(calls) < MaxOps /\ DumpZPL

Spec == Init /\ [][Next]_vars

\* the call just made is a call of op (a step that adds one call)
Called(op) == call'.op = op /\ Len(calls') = Len(calls) + 1

\* the names of the calls made so far
CallSet == {calls[k] : k \in 1..Len(calls)}

\* C1, as stated: after every sequence of builder calls the buffer begins
\* with ^XA, and the string dumpZPL returns begins with ^XA, ends with ^XZ
\* and holds no other ^XZ than that last one.
C1_SingleTerminator ==
    /\ StartsWith(code, XA)
    /\ call.op = "dumpZPL" =>
          /\ StartsWith(ret, XA)
          /\ EndsWith(ret, XZ)
          /\ Occurrences(XZ, ret) = 1

\* C1, amended: the buffer always begins with ^XA, and the string dumpZPL
\* returns begins with ^XA, ends with ^XZ, is three characters longer than
\* the buffer and holds exactly one ^XZ more than the buffer holds; it holds
\* one ^XZ alone exactly when the buffer holds none.
C1_Markers ==
    /\ StartsWith(code, XA)
    /\ call.op = "dumpZPL" =>
          /\ StartsWith(ret, XA)
          /\ EndsWith(ret, XZ)
          /\ Len(ret) = Len(code) + Len(XZ)
          /\ Occurrences(XZ, ret) = Occurrences(XZ, code) + 1
          /\ (Occurrences(XZ, ret) = 1) <=> ~ IsSubstring(XZ, code)

\* C1's case: dumpZPL after zpl_raw, saveFormat and an origin left open
C1_Witness ==
    /\ call.op = "dumpZPL"
    /\ {"origin", "zpl_raw", "saveFormat"} \subseteq CallSet
    /\ "endorigin" \notin CallSet

\* C2: dumpZPL leaves code, height, width and dpmm as they were and returns
\* the buffer followed by the terminator once; a dumpZPL that follows a
\* dumpZPL returns the string the first returned.
C2_DumpReadOnly ==
    [][Called("dumpZPL") =>
          /\ code' = code /\ height' = height /\ width' = width /\ dpmm' = dpmm
          /\ raised' = "none"
          /\ Len(ret') = Len(code) + Len(XZ)
          /\ SubSeq(ret', 1, Len(code)) = code
          /\ EndsWith(ret', XZ)
          /\ Occurrences(XZ, ret') = Occurrences(XZ, code) + 1
          /\ (call.op = "dumpZPL" => ret' = ret)]_vars

\* C2's case: three dumpZPL calls in a row after a builder call
C2_Witness ==
    /\ Len(calls) = 4
    /\ calls[1] = "origin"
    /\ \A k \in 2..4 : calls[k] = "dumpZPL"

\* C3: saveFormat(name) puts ^DF<name>^FS right after the leading ^XA and
\* keeps every other character of the buffer in its place and order, and a
\* dumpZPL that follows appends one terminator to that buffer.
C3_SaveFormatInserts ==
    [][/\ Called("saveFormat") =>
             LET cmd == DF \o call'.name \o FS
             IN /\ raised' = "none"
                /\ StartsWith(code', XA \o cmd)
                /\ Len(code') = Len(code) + Len(cmd)
                /\ SubSeq(code', 1, 3) = SubSeq(code, 1, 3)
                /\ SubSeq(code', 4 + Len(cmd), Len(code')) = SubSeq(code, 4, Len(code))
       /\ (call.op = "saveFormat" /\ Called("dumpZPL")) =>
             /\ ret' = code \o XZ
             /\ code' = code]_vars

\* C3's case: saveFormat after builder calls, then dumpZPL
C3_Witness ==
    /\ Len(calls) = 4
    /\ calls[1] = "origin"
    /\ calls[2] = "write_text"
    /\ calls[3] = "saveFormat"
    /\ calls[4] = "dumpZPL"
    /\ raised = "none"

-----------------------------------------------------------------------------
(* SpecText: write_text over valid and invalid arguments, set and unset.   *)

Fonts == {<<"0">>, <<"E", ":", "F", ".", "T", "T", "F">>, <<"a", "b">>}
Orientations == {<<"N">>, <<"Z">>, <<"N", "R">>}
Justifications == {<<"L">>, <<"C">>, <<"X">>}

InitText == InitLabel({255}, {1100}, {120})

NextText ==
    \/ Len(calls) < MaxChecked /\ WriteText({<<"T">>}, {0, 25}, {0, 25}, Fonts,
                                            Orientations, {0, 500}, Justifications)
    \/ Len(calls) < MaxChecked /\ DumpZPL

SpecText == InitText /\ [][NextText]_vars

\* C4: write_text raises at the call, whatever its other arguments are,
\* when justification is not one of L, R, C, J, or orientation is not one
\* of N, R, I, B, or font matches neither font pattern.
C4_TextRejected ==
    call.op = "write_text" =>
        ((\/ call.justification \notin {<<"L">>, <<"R">>, <<"C">>, <<"J">>}
          \/ call.orientation \notin {<<"N">>, <<"R">>, <<"I">>, <<"B">>}
          \/ ~ (match_builtin_font(call.font) \/ match_font_file(call.font)))
         => raised # "none")

-----------------------------------------------------------------------------
(* SpecBarcode: barcode and write_barcode over symbologies and over the    *)
(* QR Code parameters.                                                     *)

BarcodeTypes ==
    SupportedBarcodes \cup {<<"A">>, <<>>, <<"Z">>, <<"2", "3">>, <<"Q", "U">>}
BarcodeOrientations == {<<"N">>, <<"R">>}
Magnifications == {0, 1, 4, 10, 11}
ErrorCorrections == {<<"H">>, <<"Q">>, <<"L">>, <<"H", "Q">>, <<>>, <<"Z">>}
Masks == {<<"7">>, <<"1">>, <<"0">>, <<"8">>}

InitBarcode == InitLabel({255}, {1100}, {120})

NextBarcode ==
    \/ Len(calls) < MaxChecked /\ Barcode(BarcodeTypes, BarcodeOrientations,
                                          {1}, {<<"Q">>}, {<<"7">>})
    \/ Len(calls) < MaxChecked /\ Barcode({<<"Q">>}, BarcodeOrientations,
                                          Magnifications, ErrorCorrections, Masks)
    \/ Len(calls) < MaxChecked /\ WriteBarcode(BarcodeTypes, BarcodeOrientations,
                                               {1}, {<<"Q">>}, {<<"7">>})
    \/ Len(calls) < MaxChecked /\ WriteBarcode({<<"Q">>}, BarcodeOrientations,
                                               Magnifications, ErrorCorrections, Masks)
    \/ Len(calls) < MaxChecked /\ DumpZPL

SpecBarcode == InitBarcode /\ [][NextBarcode]_vars

\* C5: a QR Code call is rejected when orientation is not N, or
\* magnification is outside 1..10, or errorCorrection is not exactly one of
\* H, Q, M, L, or mask is outside 1..7, and is accepted otherwise.
C5_QRValidated ==
    (call.op \in {"barcode", "write_barcode"} /\ call.barcode_type = <<"Q">>) =>
        ((raised = "none") <=>
            /\ call.orientation = <<"N">>
            /\ call.magnification \in 1..10
            /\ call.errorCorrection \in {<<"H">>, <<"Q">>, <<"M">>, <<"L">>}
            /\ call.mask \in {<<DigitChars[k + 1]>> : k \in 1..7})

\* C6: barcode and write_barcode raise for every barcode_type outside the
\* seven supported symbologies and leave the buffer as it was.
C6_UnsupportedRejected ==
    [][((Called("barcode") \/ Called("write_barcode"))
           /\ call'.barcode_type \notin SupportedBarcodes)
       => (raised' # "none" /\ code' = code)]_vars

-----------------------------------------------------------------------------
(* SpecUnits: the calls that convert millimetres to dots.                  *)

Millimetres == {0, 5, 10, 25}

InitUnits == InitLabel({10, 255}, {1100}, {10, 119, 120})

NextUnits ==
    \/ Len(calls) < MaxChecked /\ LabelHome(Millimetres, Millimetres, {None, <<"0">>})
    \/ Len(calls) < MaxChecked /\ Origin(Millimetres, Millimetres, {None, <<"0">>})
    \/ Len(calls) < MaxChecked /\ WriteText({<<"T">>}, {5, 25}, {5, 10}, {<<"0">>},
                                            {<<"N">>}, {0, 505}, {<<"L">>})
    \/ Len(calls) < MaxChecked /\ TextBlock(Millimetres, {<<"C">>})
    \/ Len(calls) < MaxChecked /\ SetDefaultFont({5, 25}, {5, 10}, {<<"0">>})

SpecUnits == InitUnits /\ [][NextUnits]_vars

\* m*dpmm rounded to the nearest dot, halves away from zero, in digits
Rounded(m) == fmt_i((m * dpmm + 50) \div 100)

\* ",j" when a justification was given
JustTail(j) == IF j = None THEN <<>> ELSE Comma \o j

\* C7: every millimetre argument m >= 0 is emitted as round(m*dpmm): by
\* the constructor, labelhome, origin, write_text, textblock and
\* set_default_font.
C7_DotsRounded ==
    /\ call.op = "__init__" =>
          code = XA \o PW \o Rounded(call.width) \o LL \o Rounded(call.height)
    /\ call.op = "labelhome" =>
          EndsWith(code, LH \o Rounded(call.x) \o Comma \o Rounded(call.y)
                         \o JustTail(call.justification))
    /\ call.op = "origin" =>
          EndsWith(code, FO \o Rounded(call.x) \o Comma \o Rounded(call.y)
                         \o JustTail(call.justification))
    /\ call.op = "write_text" =>
          IsSubstring(<<"^", "A", "0", "N", ",">> \o Rounded(call.char_height)
                          \o Comma \o Rounded(call.char_width)
                          \o (IF call.line_width # 0
                              THEN FB \o Rounded(call.line_width) \o Comma
                              ELSE <<>>),
                      code)
    /\ call.op = "textblock" =>
          EndsWith(code, FB \o Rounded(call.width) \o <<",", "1", ",", "0", ",">>
                         \o call.justification \o <<",", "0">>)
    /\ call.op = "set_default_font" =>
          EndsWith(code, CF \o call.font \o Comma \o Rounded(call.height)
                         \o Comma \o Rounded(call.width))

-----------------------------------------------------------------------------
(* The run-length codec of src/zpl/utils.py.                               *)

\* the glyphs of the counts 1..19 and of the counts 20, 40, ..., 400
GlyphsLow == <<"G", "H", "I", "J", "K", "L", "M", "N", "O", "P",
               "Q", "R", "S", "T", "U", "V", "W", "X", "Y">>
GlyphsHigh == <<"g", "h", "i", "j", "k", "l", "m", "n", "o", "p",
                "q", "r", "s", "t", "u", "v", "w", "x", "y", "z">>

ZPL_COMPRESS_MAP ==
    [n \in (1..19) \cup {20 * k : k \in 1..20} |->
        IF n < 20 THEN GlyphsLow[n] ELSE GlyphsHigh[n \div 20]]

\* the keys of the map; the code walks them from the largest down
ZPL_COMPRESS_COUNTS == DOMAIN ZPL_COMPRESS_MAP

\* a choice that takes the smallest count every time
first_count_smallest(count) ==
    CHOOSE c \in ZPL_COMPRESS_COUNTS :
        c <= count /\ \A d \in ZPL_COMPRESS_COUNTS : d <= count => c <= d

\* the inner for loop of _compress_char: the first count, from the largest
\* down, that is not above what is left
first_count(count) ==
    CHOOSE c \in ZPL_COMPRESS_COUNTS :
        c <= count /\ \A d \in ZPL_COMPRESS_COUNTS : d <= count => d <= c

\* a loop that stops after its first glyph
local_count_glyph_once(count) ==
    IF count > 0 THEN <<ZPL_COMPRESS_MAP[first_count(count)]>> ELSE <<>>

\* the while loop of _compress_char: local_count_glyph when it ends
RECURSIVE local_count_glyph(_)
local_count_glyph(count) ==
    IF count > 0
    THEN <<ZPL_COMPRESS_MAP[first_count(count)]>>
             \o local_count_glyph(count - first_count(count))
    ELSE <<>>

\* a _compress_char that writes the glyph of a run of one as well
compress_char_always_glyph(count, char) == local_count_glyph(count) \o <<char>>

compress_char(count, char) ==
    IF local_count_glyph(count) = <<"G">>
    THEN <<char>>
    ELSE local_count_glyph(count) \o <<char>>

\* cnt after the for loop of compress_zpl_data at 0-based position k: the
\* characters from k up to the first one that differs from data[k]
run_count(data, k) ==
    LET differs == {j \in (k + 2)..Len(data) : data[j] # data[k + 1]}
    IN IF differs = {} THEN Len(data) - k
       ELSE (CHOOSE j \in differs : \A m \in differs : j <= m) - (k + 1)

\* one turn of the while loop of compress_zpl_data
CompressStep ==
    /\ pc = "loop"
    /\ i < Len(zpl_data)
    /\ zipped_data' = zipped_data
                        \o compress_char(run_count(zpl_data, i), zpl_data[i + 1])
    /\ i' = i + run_count(zpl_data, i)
    /\ UNCHANGED <<zpl_data, pc>>
    /\ UNCHANGED <<labelVars, printerVars, socketVars>>

\* the loop ends and zipped_data is returned
CompressReturn ==
    /\ pc = "loop"
    /\ ~ (i < Len(zpl_data))
    /\ pc' = "done"
    /\ UNCHANGED <<zpl_data, i, zipped_data>>
    /\ UNCHANGED <<labelVars, printerVars, socketVars>>

-----------------------------------------------------------------------------
(* SpecCodec: compress_zpl_data on payload strings.                        *)

\* payload characters: hexadecimal digits, none of them a count glyph
Alphabet == {"0", "A", "F"}

\* n times the character c
Rep(c, n) == [k \in 1..n |-> c]

\* every string of at most MaxLen characters, every single run of at most
\* MaxRun characters and every string of two runs of at most MaxShort each
Inputs ==
    UNION {[1..n -> Alphabet] : n \in 0..MaxLen}
    \cup {Rep(c, n) : c \in Alphabet, n \in 1..MaxRun}
    \cup {Rep(c, n) \o Rep(d, m) : c \in Alphabet, d \in Alphabet,
                                   n \in 1..MaxShort, m \in 1..MaxShort}

InitCodec ==
    /\ zpl_data \in Inputs
    /\ i = 0
    /\ zipped_data = <<>>
    /\ pc = "loop"
    /\ code = <<>>
    /\ height = 0
    /\ width = 0
    /\ dpmm = 0
    /\ call = [op |-> "none"]
    /\ raised = "none"
    /\ ret = None
    /\ calls = <<>>
    /\ Printer__init__
    /\ NoRequest

NextCodec ==
    \/ CompressStep
    \/ CompressReturn

SpecCodec == InitCodec /\ [][NextCodec]_vars

\* the count a glyph stands for
GlyphCount(g) == CHOOSE n \in ZPL_COMPRESS_COUNTS : ZPL_COMPRESS_MAP[n] = g

IsGlyph(c) == \E n \in ZPL_COMPRESS_COUNTS : ZPL_COMPRESS_MAP[n] = c

\* the inverse of the codec: the counts of the glyphs in front of a literal
\* are summed (no glyph counts as 1) and the literal is repeated that often
RECURSIVE Expand(_, _)
Expand(z, acc) ==
    IF z = <<>> THEN <<>>
    ELSE IF IsGlyph(Head(z)) THEN Expand(Tail(z), acc + GlyphCount(Head(z)))
    ELSE Rep(Head(z), IF acc = 0 THEN 1 ELSE acc) \o Expand(Tail(z), 0)

\* C8: expanding what compress_zpl_data has written gives back the part of
\* the input it has read, and the whole input once it has returned.
C8_RoundTrip ==
    /\ pc \in {"loop", "done"} => Expand(zipped_data, 0) = SubSeq(zpl_data, 1, i)
    /\ pc = "done" => Expand(zipped_data, 0) = zpl_data

\* C8's case: the result for an input holding a run longer than 400
C8_Witness ==
    /\ pc = "done"
    /\ Len(zpl_data) > 800
    /\ Len(zipped_data) = 4
    /\ zipped_data[1] = "z"

\* the longest run the inputs hold
RunLimit == IF MaxRun > 2 * MaxShort THEN MaxRun ELSE 2 * MaxShort

\* the sums of exactly k counts, up to RunLimit
RECURSIVE SumsOf(_)
SumsOf(k) ==
    IF k = 0 THEN {0}
    ELSE {a + d : a \in SumsOf(k - 1), d \in ZPL_COMPRESS_COUNTS} \cap (0..RunLimit)

\* the least number of counts that sum to n, for every n up to RunLimit
MinGlyphs ==
    LET levels == [k \in 0..((RunLimit \div 400) + 2) |-> SumsOf(k)]
    IN [n \in 0..RunLimit |->
           CHOOSE k \in DOMAIN levels :
               n \in levels[k] /\ \A j \in 0..(k - 1) : n \notin levels[j]]

\* the largest-first decomposition of n, written out: 400 as often as it
\* fits, then the multiple of 20 in what is left, then the rest below 20
GreedyGlyphs(n) ==
    Rep("z", n \div 400)
    \o (IF (n % 400) \div 20 > 0 THEN <<GlyphsHigh[(n % 400) \div 20]>> ELSE <<>>)
    \o (IF n % 20 > 0 THEN <<GlyphsLow[n % 20]>> ELSE <<>>)

\* what a turn of the loop appends to the output
Emitted == SubSeq(zipped_data', Len(zipped_data) + 1, Len(zipped_data'))

\* the turn of the loop reads the maximal run of character c that starts at
\* position i, and that run has n characters
ReadsMaximalRun(c, n) ==
    /\ n >= 1
    /\ i + n <= Len(zpl_data)
    /\ \A k \in (i + 1)..(i + n) : zpl_data[k] = c
    /\ i + n < Len(zpl_data) => zpl_data[i + n + 1] # c
    /\ i > 0 => zpl_data[i] # c

\* C9: for a maximal run of n >= 2 characters the codec writes the glyphs
\* of the largest-first decomposition of n and then the character, and no
\* way of writing n as a sum of counts uses fewer glyphs.
C9_GreedyMinimal ==
    [][(pc = "loop" /\ i' # i) =>
          LET n == i' - i
              c == zpl_data[i + 1]
          IN /\ ReadsMaximalRun(c, n)
             /\ n >= 2 =>
                   /\ Emitted = GreedyGlyphs(n) \o <<c>>
                   /\ Len(Emitted) - 1 = MinGlyphs[n]]_vars

\* C9's case: twenty A written with the one glyph g
C9_Witness ==
    /\ pc = "done"
    /\ zpl_data = Rep("A", 20)
    /\ zipped_data = <<"g", "A">>

\* no two neighbours of s are equal
NoRepeat(s) == \A k \in 1..(Len(s) - 1) : s[k] # s[k + 1]

\* C10: a run of one character is written as the bare character, every
\* longer run is written with a glyph in front, the empty input gives the
\* empty output, and an input without equal neighbours comes back unchanged.
C10_BareLiteral ==
    [][/\ (pc = "loop" /\ i' # i) =>
             LET n == i' - i
                 c == zpl_data[i + 1]
             IN /\ ReadsMaximalRun(c, n)
                /\ n = 1 => Emitted = <<c>>
                /\ n # 1 => /\ Len(Emitted) >= 2
                            /\ \A k \in 1..(Len(Emitted) - 1) : IsGlyph(Emitted[k])
                            /\ Emitted[Len(Emitted)] = c
       /\ pc' = "done" =>
             /\ zpl_data = <<>> => zipped_data' = <<>>
             /\ NoRepeat(zpl_data) => zipped_data' = zpl_data]_vars

\* C10's case: an input without equal neighbours, returned as it was
C10_Witness ==
    /\ pc = "done"
    /\ Len(zpl_data) = MaxLen
    /\ NoRepeat(zpl_data)
    /\ zipped_data = zpl_data

-----------------------------------------------------------------------------
(* write_graphic: the ^GF field that embeds an image.                      *)

GFA == <<"^", "G", "F", "A", ",">>

HexChars == <<"0", "1", "2", "3", "4", "5", "6", "7", "8", "9",
              "A", "B", "C", "D", "E", "F">>

\* bytes.hex().upper() of one byte
hex_byte(b) == <<HexChars[(b \div 16) + 1], HexChars[(b % 16) + 1]>>

\* math.ceil(x/8.0), for x in hundredths of a dot
ceil_8(x) == (x + 799) \div 800

\* the bytes of one row of a mode "1" raster w pixels wide: 8 pixels to a
\* byte, the leftmost in the highest bit, the last byte filled with zero
\* bits.  An image of one colour: inverted, white is 0 and black is 1.
raster_row(w, colour) ==
    [k \in 1..((w + 7) \div 8) |->
        IF colour = "white" THEN 0
        ELSE IF 8 * k <= w THEN 255 ELSE 256 - 2 ^ (8 * k - w)]

\* image.tobytes().hex().upper() of a raster of h rows of w pixels
tobytes_hex(w, h, colour) ==
    LET row == raster_row(w, colour)
        B == Len(row)
    IN [n \in 1..(2 * B * h) |->
           hex_byte(row[(((n - 1) \div 2) % B) + 1])[((n - 1) % 2) + 1]]

\* Label._convert_image: resize to (int(width*dpmm), int(height*dpmm)),
\* invert, convert to mode "1", hex-encode; resize refuses an empty size
_convert_image(self, image, width_mm, height_mm, compression_type) ==
    LET w == dots(width_mm, self.dpmm)
        h == dots(height_mm, self.dpmm)
    IN IF w <= 0 \/ h <= 0 THEN [raised |-> "ValueError", data |-> <<>>]
       ELSE IF compression_type = <<"A">>
            THEN [raised |-> "none", data |-> tobytes_hex(w, h, image.colour)]
            ELSE [raised |-> "Exception", data |-> <<>>]

\* Label.write_graphic(image, width, height, compression_type); height 0
\* is "not given" and is then taken from the proportions of the image
write_graphic(self, image, width_mm, height_mm, compression_type) ==
    LET h == IF height_mm = 0
             THEN 10 * ((image.size[2] * width_mm) \div (image.size[1] * 10))
             ELSE height_mm
        totalbytes == (ceil_8(width_mm * self.dpmm) * h * self.dpmm) \div 100
        bytesperrow == ceil_8(width_mm * self.dpmm)
        conv == _convert_image(self, image, width_mm, h, compression_type)
    IN IF conv.raised # "none" THEN Raise(self, conv.raised)
       ELSE Return(Emit(self, GFA \o fmt_i(Len(conv.data)) \o Comma
                              \o fmt_i(totalbytes) \o Comma
                              \o fmt_i(bytesperrow) \o Comma \o conv.data),
                   h)

WriteGraphic(Is, Ws, Hs, Cs) ==
    \E image \in Is, w \in Ws, h \in Hs, c \in Cs :
        Apply(write_graphic(Label, image, w, h, c),
              [op |-> "write_graphic", image |-> image, width |-> w,
               height |-> h, compression_type |-> c])

-----------------------------------------------------------------------------
(* SpecGraphic: images embedded at widths and heights that are and are not *)
(* a whole number of dots.                                                 *)

\* images of one colour, as wide as high and twice as high as wide
Images ==
    {[size |-> <<1, 1>>, colour |-> "black"],
     [size |-> <<1, 2>>, colour |-> "white"]}

\* 1.0 mm, 1.4 mm, 2.0 mm and 2.5 mm are 12, 16.8, 24 and 30 dots at 12.0
\* dots per mm
GraphicWidths == {10, 14, 20, 25}

\* not given, 0.2 mm (2.4 dots), 0.5 mm (6 dots), 1.0 mm (12 dots)
GraphicHeights == {0, 2, 5, 10}

InitGraphic == InitLabel({255}, {1100}, {120})

NextGraphic ==
    \/ Len(calls) < MaxChecked
          /\ WriteGraphic(Images, GraphicWidths, GraphicHeights,
                          {<<"A">>, <<"B">>})
    \/ Len(calls) < MaxChecked /\ DumpZPL

SpecGraphic == InitGraphic /\ [][NextGraphic]_vars

\* the raster that a write_graphic call encodes: its width and height in
\* dots
RasterHeight(c) ==
    dots(IF c.height = 0
         THEN 10 * ((c.image.size[2] * c.width) \div (c.image.size[1] * 10))
         ELSE c.height, dpmm)

RasterWidth(c) == dots(c.width, dpmm)

\* C11: a write_graphic call that returns has appended
\* ^GFA,n,totalBytes,bytesPerRow,payload where bytesPerRow is
\* ceil(widthDots/8), totalBytes is bytesPerRow*heightDots for the
\* widthDots x heightDots raster that was encoded, and the payload is
\* 2*totalBytes hexadecimal digits (n is any number).
C11_GraphicHeaders ==
    [][(Called("write_graphic") /\ raised' = "none")
       => LET bytesPerRow == (RasterWidth(call') + 7) \div 8
              totalBytes == bytesPerRow * RasterHeight(call')
              frag == SubSeq(code', Len(code) + 1, Len(code'))
              sizes == Comma \o fmt_i(totalBytes) \o Comma
                             \o fmt_i(bytesPerRow) \o Comma
          IN \E m \in 1..Len(frag) :
                /\ Len(frag) = Len(GFA) + m + Len(sizes) + 2 * totalBytes
                /\ SubSeq(frag, 1, Len(GFA)) = GFA
                /\ \A k \in (Len(GFA) + 1)..(Len(GFA) + m) : frag[k] \in Digits
                /\ SubSeq(frag, Len(GFA) + m + 1, Len(GFA) + m + Len(sizes))
                      = sizes
                /\ \A k \in (Len(GFA) + m + Len(sizes) + 1)..Len(frag) :
                      \E d \in 1..16 : frag[k] = HexChars[d]]_vars

-----------------------------------------------------------------------------
(* Python string and dict operations used by the Printer queries.          *)

STX == "STX"
ETX == "ETX"
CRLF == <<"CR", "LF">>

\* the characters str.strip() removes
Whitespace == {" ", "TAB", "LF", "CR"}

\* s.strip(chars)
strip(s, chars) ==
    LET keep == {k \in 1..Len(s) : s[k] \notin chars}
    IN IF keep = {} THEN <<>>
       ELSE SubSeq(s, CHOOSE a \in keep : \A k \in keep : a <= k,
                      CHOOSE b \in keep : \A k \in keep : k <= b)

\* the rfind reading of find: the highest position at or after start
find_last(s, sub, start) ==
    LET at == {k \in start..(Len(s) - Len(sub)) :
                  SubSeq(s, k + 1, k + Len(sub)) = sub}
    IN IF at = {} THEN -1 ELSE CHOOSE a \in at : \A k \in at : k <= a

\* s.find(sub, start): the lowest 0-based position at or after start where
\* s holds sub, or -1
find(s, sub, start) ==
    LET at == {k \in start..(Len(s) - Len(sub)) :
                  SubSeq(s, k + 1, k + Len(sub)) = sub}
    IN IF at = {} THEN -1 ELSE CHOOSE a \in at : \A k \in at : a <= k

\* s.split(sep)
RECURSIVE split(_, _)
split(s, sep) ==
    LET p == find(s, sep, 0)
    IN IF p = -1 THEN <<s>>
       ELSE <<SubSeq(s, 1, p)>> \o split(SubSeq(s, p + Len(sep) + 1, Len(s)), sep)

\* d[k] = v on a dict d
dict_set(d, k, v) == [x \in DOMAIN d \cup {k} |-> IF x = k THEN v ELSE d[x]]

\* d.update(e)
dict_update(d, e) ==
    [x \in DOMAIN d \cup DOMAIN e |-> IF x \in DOMAIN e THEN e[x] ELSE d[x]]

-----------------------------------------------------------------------------
(* The Printer object and the outcome of a query on it.                    *)

Printer == [_info |-> _info, _cfg |-> _cfg, _stat |-> _stat]

\* what request_info gives back: the bytes of the answer, or an exception
Answer(data) == [raises |-> "none", data |-> data]
Timeout == [raises |-> "socket.timeout", data |-> <<>>]

\* the query returned v after the requests in sentcmds
PReturn(self, v, sentcmds) ==
    [self |-> self, raised |-> "none", ret |-> v, requested |-> sentcmds]

\* the query raised e after the requests in sentcmds
PRaise(self, e, sentcmds) ==
    [self |-> self, raised |-> e, ret |-> None, requested |-> sentcmds]

\* the while loop of get_printer_config on line l, from j with k spaces to
\* look for: the value of i when the loop ends
RECURSIVE config_split_at(_, _, _)
config_split_at(l, j, k) ==
    LET j2 == find(l, Rep(" ", k), j)
    IN IF j2 = -1 THEN j ELSE config_split_at(l, j2, k + 1)

\* the body of the for loop of get_printer_config: one line stored in cfg
config_line(cfg, line) ==
    LET l == strip(line, Whitespace)
        at == config_split_at(l, 0, 1)
    IN dict_set(cfg, strip(Slice(l, at, Len(l)), Whitespace),
                     strip(Slice(l, 0, at), Whitespace))

\* the for loop of get_printer_config over the lines from the n-th on
RECURSIVE config_lines(_, _, _)
config_lines(cfg, lines, n) ==
    IF n > Len(lines) THEN cfg
    ELSE config_lines(config_line(cfg, lines[n]), lines, n + 1)

\* Printer.get_printer_config(reload); response is what request_info gives
get_printer_config(self, reload, response) ==
    IF DOMAIN self._cfg = {} \/ reload
    THEN IF response.raises # "none"
         THEN PRaise(self, response.raises, <<"^XA^HH^XZ">>)
         ELSE LET lines == split(strip(response.data,
                                       {STX, ETX, " ", "TAB", "LF", "CR"}), CRLF)
                  cfg == config_lines(self._cfg, lines, 1)
              IN PReturn([self EXCEPT !._cfg = cfg], cfg, <<"^XA^HH^XZ">>)
    ELSE PReturn(self, self._cfg, <<>>)

\* the state after a query with outcome r; c records the call
PrinterApply(r, c) ==
    /\ _info' = r.self._info
    /\ _cfg' = r.self._cfg
    /\ _stat' = r.self._stat
    /\ requests' = requests \o r.requested
    /\ raised' = r.raised
    /\ ret' = r.ret
    /\ call' = c
    /\ calls' = Append(calls, c.op)
    /\ UNCHANGED <<code, height, width, dpmm, codecVars, socketVars>>

\* a Printer on which no query was made
InitPrinter ==
    /\ Printer__init__
    /\ call = [op |-> "__init__"]
    /\ raised = "none"
    /\ ret = None
    /\ calls = <<>>
    /\ code = <<>>
    /\ height = 0
    /\ width = 0
    /\ dpmm = 0
    /\ zpl_data = <<>>
    /\ i = 0
    /\ zipped_data = <<>>
    /\ pc = "idle"
    /\ NoRequest

GetPrinterConfig(Rl, Rs) ==
    \E reload \in Rl, response \in Rs :
        PrinterApply(get_printer_config(Printer, reload, response),
                     [op |-> "get_printer_config", reload |-> reload,
                      response |-> response])

-----------------------------------------------------------------------------
(* SpecConfigLine: get_printer_config on answers of one line.              *)

\* the longest line of an answer
MaxLine == 7

LineChars == {" ", "4", "D"}

\* the answers that hold one line of at most MaxLine characters
LineAnswers ==
    {Answer(<<STX>> \o l \o <<ETX>>) :
        l \in UNION {[1..n -> LineChars] : n \in 0..MaxLine}}

NextConfigLine ==
    calls = <<>> /\ GetPrinterConfig(BOOLEAN, LineAnswers)

SpecConfigLine == InitPrinter /\ [][NextConfigLine]_vars

\* the runs of consecutive spaces of t, as <<first, last>> positions
SpaceRuns(t) ==
    {r \in (1..Len(t)) \X (1..Len(t)) :
        /\ r[1] <= r[2]
        /\ \A k \in r[1]..r[2] : t[k] = " "
        /\ (r[1] = 1 \/ t[r[1] - 1] # " ")
        /\ (r[2] = Len(t) \/ t[r[2] + 1] # " ")}

\* the first of the longest runs of spaces of t
LongestRun(t) ==
    CHOOSE r \in SpaceRuns(t) :
        \A q \in SpaceRuns(t) :
            \/ q[2] - q[1] < r[2] - r[1]
            \/ (q[2] - q[1] = r[2] - r[1] /\ r[1] <= q[1])

\* the line of a one-line answer, trimmed
TrimmedLine(c) ==
    strip(SubSeq(c.response.data, 2, Len(c.response.data) - 1), Whitespace)

\* C12: get_printer_config splits a trimmed line at its longest run of
\* consecutive spaces, the first one when several are longest: the text
\* left of the run is the value, the trimmed text from the run on is the
\* name; a line without spaces is a name with the empty value.
C12_LongestRunSplit ==
    (call.op = "get_printer_config" /\ raised = "none")
    => LET t == TrimmedLine(call)
       IN IF SpaceRuns(t) = {}
          THEN _cfg = [n \in {t} |-> <<>>]
          ELSE LET r == LongestRun(t)
               IN _cfg = [n \in {SubSeq(t, r[2] + 1, Len(t))} |->
                             SubSeq(t, 1, r[1] - 1)]

\* the line "4 D  4" has a run of one space and then a run of two: the
\* value is "4 D" and the name is "4"
C12_Witness ==
    /\ call.op = "get_printer_config"
    /\ TrimmedLine(call) = <<"4", " ", "D", " ", " ", "4">>
    /\ _cfg = [n \in {<<"4">>} |-> <<"4", " ", "D">>]

-----------------------------------------------------------------------------
(* get_printer_errors: the ~HQES answer and its flag nibbles.              *)

\* s.split(): the words of s between runs of whitespace
RECURSIVE words(_)
words(s) ==
    LET t == strip(s, Whitespace)
        ws == {k \in 1..Len(t) : t[k] \in Whitespace}
    IN IF t = <<>> THEN <<>>
       ELSE IF ws = {} THEN <<t>>
       ELSE LET p == CHOOSE a \in ws : \A k \in ws : a <= k
            IN <<SubSeq(t, 1, p - 1)>> \o words(SubSeq(t, p + 1, Len(t)))

\* s[-19:]
last19(s) == SubSeq(s, IF Len(s) > 19 THEN Len(s) - 18 ELSE 1, Len(s))

\* int(s) succeeds: s is a run of decimal digits
int_ok(s) == s # <<>> /\ \A k \in 1..Len(s) : s[k] \in Digits

\* int(s) for one decimal digit
int_digit(s) == (CHOOSE v \in 1..10 : DigitChars[v] = s[1]) - 1

\* bit & m is non-zero, for m a power of two
bit_and(bit, m) == (bit \div m) % 2 = 1

\* the conditions named for warning[1][5:6], [6:7] and [7:8], by bit
WarningNames ==
    << <<"Sensor 5 (presenter)", "Sensor 6 (retract ready)",
         "Sensor 7 (in retract)", "Sensor 8 (at bin)">>,
       <<"Sensor 1 (Paper before head)", "Sensor 2 (Black mark)",
         "Sensor 3 (Paper after head)", "Sensor 4 (loop ready)">>,
       <<"Need to Calibrate Media", "Clean Printhead",
         "Replace Printhead", "Paper-near-end Sensor">> >>

\* the conditions named for error[2][3:4] to [7:8], by bit
ErrorNames ==
    << <<"Paused", "Retract Function timed out",
         "Black Mark Calabrate Error", "Black Mark not Found">>,
       <<"Paper Jam during Retract", "Presenter Not Running",
         "Paper Feed Error", "Clear Paper Path Failed">>,
       <<"Invalid Firmware Configuration", "Printhead Thermistor Open">>,
       <<"Printhead Over Temperature", "Motor Over Temperature",
         "Bad Printhead Element", "Printhead Detection Error">>,
       <<"Media Out", "Ribbon Out", "Head Open", "Cutter Fault">> >>

\* one if/elif chain of get_printer_errors: what it appends for bit
elif_chain(bit, names) ==
    IF bit_and(bit, 1) THEN <<names[1]>>
    ELSE IF bit_and(bit, 2) THEN <<names[2]>>
    ELSE IF Len(names) >= 3 /\ bit_and(bit, 4) THEN <<names[3]>>
    ELSE IF Len(names) >= 4 /\ bit_and(bit, 8) THEN <<names[4]>>
    ELSE <<>>

\* the chains over the nibbles of group from 0-based position first on
RECURSIVE elif_chains(_, _, _, _)
elif_chains(group, first, names, n) ==
    IF n > Len(names) THEN <<>>
    ELSE elif_chain(int_digit(Slice(group, first + n - 1, first + n)), names[n])
         \o elif_chains(group, first, names, n + 1)

\* the nibbles group[first : first + count] all pass int()
nibbles_ok(group, first, count) ==
    \A n \in 1..count : int_ok(Slice(group, first + n - 1, first + n))

\* Printer.get_printer_errors(); response is what request_info gives
get_printer_errors(self, response) ==
    IF DOMAIN self._info = {}
    THEN IF response.raises # "none"
         THEN PRaise(self, response.raises, <<"~HQES">>)
         ELSE LET lines == split(strip(response.data, Whitespace), <<"LF">>)
                  warning == words(last19(strip(lines[5], Whitespace)))
                  error == words(last19(strip(lines[4], Whitespace)))
              IN IF Len(lines) < 5 \/ Len(warning) < 2
                 THEN PRaise(self, "IndexError", <<"~HQES">>)
                 ELSE IF ~ nibbles_ok(warning[2], 5, 3)
                 THEN PRaise(self, "ValueError", <<"~HQES">>)
                 ELSE IF Len(error) < 3
                 THEN PRaise(self, "IndexError", <<"~HQES">>)
                 ELSE IF ~ nibbles_ok(error[3], 3, 5)
                 THEN PRaise(self, "ValueError", <<"~HQES">>)
                 ELSE PReturn(self,
                              <<warning[1],
                                elif_chains(warning[2], 5, WarningNames, 1),
                                error[1],
                                elif_chains(error[3], 3, ErrorNames, 1)>>,
                              <<"~HQES">>)
    ELSE PRaise(self, "UnboundLocalError", <<>>)

GetPrinterErrors(Rs) ==
    \E response \in Rs :
        PrinterApply(get_printer_errors(Printer, response),
                     [op |-> "get_printer_errors", response |-> response])

-----------------------------------------------------------------------------
(* SpecErrorBits: get_printer_errors on a new Printer, over the flag       *)
(* nibbles of the answer.                                                  *)

HQESHead ==
    <<STX, "CR", "LF", "CR", "LF", " ", " ", "P", "R", "I", "N", "T", "E", "R",
      " ", "S", "T", "A", "T", "U", "S", "CR", "LF", " ", " ", " ",
      "E", "R", "R", "O", "R", "S", ":", " ", " ", " ", " ">>

HQESMid ==
    <<"CR", "LF", " ", " ", " ", "W", "A", "R", "N", "I", "N", "G", "S", ":",
      " ", " ">>

HQESTail == <<"CR", "LF", ETX>>

\* the ~HQES answer with the flags e for errors and w for warnings, each
\* "f gggggggg gggggggg": a flag, the nibbles of group 2, those of group 1
HQES(e, w) == Answer(HQESHead \o e \o HQESMid \o w \o HQESTail)

\* flags with the nibbles ns at the 0-based positions from first on of
\* word g (2 or 3), the other nibbles 0
Flags(g, first, ns) ==
    LET group == [k \in 1..8 |->
                     IF k > first /\ k <= first + Len(ns) THEN ns[k - first]
                     ELSE "0"]
    IN <<"1", " ">> \o (IF g = 2 THEN group ELSE Rep("0", 8))
       \o <<" ">> \o (IF g = 3 THEN group ELSE Rep("0", 8))

\* no bit, the two low bits, the high bit
NibbleChars == {"0", "3", "8"}

\* the two high bits, as the hexadecimal digit C
HexNibbleChars == {"0", "C"}

ErrorBitAnswers ==
    {HQES(Flags(3, 3, e), Flags(2, 5, w)) :
        e \in [1..5 -> NibbleChars], w \in [1..3 -> NibbleChars]}
    \cup {HQES(Flags(3, 3, e), Flags(2, 5, w)) :
             e \in [1..5 -> HexNibbleChars], w \in [1..3 -> HexNibbleChars]}

NextErrorBits ==
    calls = <<>> /\ GetPrinterErrors(ErrorBitAnswers)

SpecErrorBits == InitPrinter /\ [][NextErrorBits]_vars

\* the value of a hexadecimal digit
HexValue(c) == (CHOOSE v \in 1..16 : HexChars[v] = c) - 1

\* the conditions of names whose bit is set in the nibbles of group from
\* the 0-based position first on
NamedBits(group, first, names) ==
    UNION {{names[n][b] : b \in {m \in 1..Len(names[n]) :
                              bit_and(HexValue(group[first + n]), 2 ^ (m - 1))}}
           : n \in 1..Len(names)}

\* the elements of a list
Range(s) == {s[k] : k \in 1..Len(s)}

\* the errors and warnings flags of an answer
ErrorFlags(data) == SubSeq(data, Len(HQESHead) + 1, Len(HQESHead) + 19)
WarningFlags(data) ==
    SubSeq(data, Len(HQESHead) + 19 + Len(HQESMid) + 1,
                 Len(HQESHead) + 19 + Len(HQESMid) + 19)

\* C13: get_printer_errors returns, and its lists hold every condition
\* whose bit is set in a nibble of the answer, each bit tested on its own;
\* set bits without a named condition add nothing.
C13_BitsIndependent ==
    call.op = "get_printer_errors"
    => /\ raised = "none"
       /\ Range(ret[2])
            = NamedBits(SubSeq(WarningFlags(call.response.data), 3, 10), 5,
                        WarningNames)
       /\ Range(ret[4])
            = NamedBits(SubSeq(ErrorFlags(call.response.data), 12, 19), 3,
                        ErrorNames)

-----------------------------------------------------------------------------
(* get_printer_info and get_printer_status: answers matched by re.match.   *)

\* sep.join(fields)
RECURSIVE join(_, _)
join(fields, sep) ==
    IF Len(fields) = 0 THEN <<>>
    ELSE IF Len(fields) = 1 THEN fields[1]
    ELSE fields[1] \o sep \o join(Tail(fields), sep)

\* re.match of '\x02' + n times [^,]+ joined by ',' + '\x03' at the start of
\* s: the n fields, the last one reaching to the last \x03 before a comma
match_fields(s, n) ==
    LET pieces == split(SubSeq(s, 2, Len(s)), Comma)
        last == pieces[n]
        etxs == {k \in 2..Len(last) : last[k] = ETX}
        stop == CHOOSE a \in etxs : \A k \in etxs : k <= a
    IN IF /\ s # <<>>
          /\ s[1] = STX
          /\ Len(pieces) >= n
          /\ \A k \in 1..(n - 1) : pieces[k] # <<>>
          /\ etxs # {}
       THEN [ok |-> TRUE,
             fields |-> [k \in 1..n |-> IF k < n THEN pieces[k]
                                       ELSE SubSeq(last, 1, stop - 1)]]
       ELSE [ok |-> FALSE, fields |-> <<>>]

\* re.match of a pattern of this shape whose groups are names; "" stands
\* for a field without a group and "000" for the literal 000
re_match(names, s) ==
    LET m == match_fields(s, Len(names))
        literal == {k \in 1..Len(names) : names[k] = "000"}
        groups == {names[k] : k \in 1..Len(names)} \ {"", "000"}
    IN IF m.ok /\ \A k \in literal : m.fields[k] = <<"0", "0", "0">>
       THEN [ok |-> TRUE,
             groupdict |-> [g \in groups |->
                 m.fields[CHOOSE k \in 1..Len(names) : names[k] = g]]]
       ELSE [ok |-> FALSE, groupdict |-> <<>>]

InfoNames == <<"model", "version", "dpmm", "mem">>

StatusNames1 ==
    <<"interface", "paper_out", "pause", "label_length",
      "number_of_formats_in_recv_buf", "buffer_full", "comm_diag_mode",
      "partial_format", "000", "corrupt_ram", "under_temp", "over_temp">>

StatusNames2 ==
    <<"func_settings", "", "head_up", "ribbon_out", "thermoal_transfer",
      "print_mode", "print_width_mode", "label_waiting", "labels_remaining",
      "format_while_printing", "graphics_stored_in_mem">>

StatusNames3 == <<"password", "static_ram">>

\* Printer.get_printer_info(); response is what request_info gives
get_printer_info(self, response) ==
    IF DOMAIN self._info = {}
    THEN IF response.raises # "none"
         THEN PRaise(self, response.raises, <<"~HI">>)
         ELSE LET m == re_match(InfoNames, strip(response.data, Whitespace))
              IN IF m.ok
                 THEN PReturn([self EXCEPT !._info = m.groupdict],
                              m.groupdict, <<"~HI">>)
                 ELSE PRaise(self, "AttributeError", <<"~HI">>)
    ELSE PReturn(self, self._info, <<>>)

\* Printer.get_printer_status(reload); response is what request_info gives.
\* Each matched line is merged into self._stat before the next is matched.
get_printer_status(self, reload, response) ==
    IF DOMAIN self._stat = {} \/ reload
    THEN IF response.raises # "none"
         THEN PRaise(self, response.raises, <<"~HS">>)
         ELSE LET lines == split(strip(response.data, Whitespace), CRLF)
                  m1 == re_match(StatusNames1, lines[1])
                  m2 == re_match(StatusNames2, lines[2])
                  m3 == re_match(StatusNames3, lines[3])
                  s1 == [self EXCEPT !._stat = dict_update(@, m1.groupdict)]
                  s2 == [s1 EXCEPT !._stat = dict_update(@, m2.groupdict)]
                  s3 == [s2 EXCEPT !._stat = dict_update(@, m3.groupdict)]
              IN IF ~ m1.ok THEN PRaise(self, "AttributeError", <<"~HS">>)
                 ELSE IF Len(lines) < 2 THEN PRaise(s1, "IndexError", <<"~HS">>)
                 ELSE IF ~ m2.ok THEN PRaise(s1, "AttributeError", <<"~HS">>)
                 ELSE IF Len(lines) < 3 THEN PRaise(s2, "IndexError", <<"~HS">>)
                 ELSE IF ~ m3.ok THEN PRaise(s2, "AttributeError", <<"~HS">>)
                 ELSE PReturn(s3, s3._stat, <<"~HS">>)
    ELSE PReturn(self, self._stat, <<>>)

GetPrinterInfo(Rs) ==
    \E response \in Rs :
        PrinterApply(get_printer_info(Printer, response),
                     [op |-> "get_printer_info", response |-> response])

GetPrinterStatus(Rl, Rs) ==
    \E reload \in Rl, response \in Rs :
        PrinterApply(get_printer_status(Printer, reload, response),
                     [op |-> "get_printer_status", reload |-> reload,
                      response |-> response])

-----------------------------------------------------------------------------
(* SpecQueries: the queries of a Printer in any order, against answers     *)
(* that are well formed, malformed, or do not arrive.                      *)

\* the number of queries made on one Printer
MaxQueries == 3

\* a line of a ~HS or ~HI answer whose fields all hold v
FieldLine(names, v) ==
    <<STX>> \o join([k \in 1..Len(names) |->
                        IF names[k] = "000" THEN <<"0", "0", "0">> ELSE v],
                    Comma)
    \o <<ETX>>

\* a ~HS answer of three well-formed lines
GoodStatus(v) ==
    Answer(FieldLine(StatusNames1, v) \o CRLF \o FieldLine(StatusNames2, v)
           \o CRLF \o FieldLine(StatusNames3, v) \o CRLF)

\* a ~HS answer whose second line has too few fields
BadSecondLine(v) ==
    Answer(FieldLine(StatusNames1, v) \o CRLF \o FieldLine(StatusNames3, v)
           \o CRLF \o FieldLine(StatusNames3, v) \o CRLF)

\* a ~HS answer that ends after its second line
NoThirdLine(v) ==
    Answer(FieldLine(StatusNames1, v) \o CRLF \o FieldLine(StatusNames2, v)
           \o CRLF)

StatusAnswers ==
    {GoodStatus(<<"0">>), GoodStatus(<<"1">>), BadSecondLine(<<"1">>),
     NoThirdLine(<<"1">>), Answer(<<STX, ETX>>), Timeout}

InfoAnswers ==
    {Answer(FieldLine(InfoNames, <<"Z">>)), Answer(FieldLine(StatusNames3, <<"Z">>)),
     Timeout}

\* ^HH answers: darkness 4 and speed 8; darkness 5 alone; tear-off 4 alone
ConfigAnswers ==
    {Answer(<<STX, " ", " ", "4", " ", " ", " ", "D", "CR", "LF",
              " ", " ", "8", " ", " ", " ", "S", "CR", "LF", ETX>>),
     Answer(<<STX, " ", " ", "5", " ", " ", " ", "D", "CR", "LF", ETX>>),
     Answer(<<STX, " ", " ", "4", " ", " ", " ", "T", "CR", "LF", ETX>>),
     Timeout}

\* ~HQES answers: no flag set; media out and clean printhead
ErrorAnswers ==
    {HQES(Flags(3, 7, <<"0">>), Flags(2, 7, <<"0">>)),
     HQES(Flags(3, 7, <<"1">>), Flags(2, 7, <<"2">>)),
     Timeout}

NextQueries ==
    \/ Len(calls) < MaxQueries /\ GetPrinterInfo(InfoAnswers)
    \/ Len(calls) < MaxQueries /\ GetPrinterStatus(BOOLEAN, StatusAnswers)
    \/ Len(calls) < MaxQueries /\ GetPrinterConfig(BOOLEAN, ConfigAnswers)
    \/ Len(calls) < MaxQueries /\ GetPrinterErrors(ErrorAnswers)

SpecQueries == InitPrinter /\ [][NextQueries]_vars

\* a Printer whose caches are empty
NewPrinter == [_info |-> <<>>, _cfg |-> <<>>, _stat |-> <<>>]

\* the records parsed from one answer alone
ParsedStatus(response) == get_printer_status(NewPrinter, FALSE, response)
ParsedConfig(response) == get_printer_config(NewPrinter, FALSE, response)
ParsedErrors(response) == get_printer_errors(NewPrinter, response)

\* C14: each kind of query has its own cache.  With a record cached, a
\* call without reload requests nothing and returns the cached record; a
\* call with reload=True that succeeds has made exactly one request and
\* returns the record parsed from its answer; a query of one kind leaves
\* the caches of the other kinds as they were.
C14_CachePerKind ==
    [][/\ (Called("get_printer_status") /\ ~ call'.reload /\ DOMAIN _stat # {})
            => (requests' = requests /\ raised' = "none" /\ ret' = _stat)
       /\ (Called("get_printer_config") /\ ~ call'.reload /\ DOMAIN _cfg # {})
            => (requests' = requests /\ raised' = "none" /\ ret' = _cfg)
       /\ (Called("get_printer_info") /\ DOMAIN _info # {})
            => (requests' = requests /\ raised' = "none" /\ ret' = _info)
       /\ (Called("get_printer_status") /\ call'.reload /\ raised' = "none")
            => (/\ requests' = Append(requests, "~HS")
                /\ ret' = ParsedStatus(call'.response).ret)
       /\ (Called("get_printer_config") /\ call'.reload /\ raised' = "none")
            => (/\ requests' = Append(requests, "^XA^HH^XZ")
                /\ ret' = ParsedConfig(call'.response).ret)
       /\ Called("get_printer_status") => (_cfg' = _cfg /\ _info' = _info)
       /\ Called("get_printer_config") => (_stat' = _stat /\ _info' = _info)
       /\ Called("get_printer_info") => (_stat' = _stat /\ _cfg' = _cfg)]_vars

\* C15: after a reload that succeeds the cached record is the record parsed
\* from the new answer: no name of an earlier answer alone is left in it.
C15_ReloadReplaces ==
    [][/\ (Called("get_printer_config") /\ call'.reload /\ raised' = "none")
            => _cfg' = ParsedConfig(call'.response).ret
       /\ (Called("get_printer_status") /\ call'.reload /\ raised' = "none")
            => _stat' = ParsedStatus(call'.response).ret]_vars

\* C16: get_printer_status(reload=True) on a malformed answer raises and
\* leaves the status record cached before exactly as it was.
C16_MalformedKeepsCache ==
    [][(/\ Called("get_printer_status")
        /\ call'.reload
        /\ DOMAIN _stat # {}
        /\ call'.response.raises = "none"
        /\ ParsedStatus(call'.response).raised # "none")
       => (raised' # "none" /\ _stat' = _stat)]_vars

\* C19: get_printer_errors makes one ~HQES request and returns what that
\* answer decodes to, whatever queries came before it (get_printer_info
\* among them), and it leaves the cached records as they were.
C19_ErrorsAfterAnyQuery ==
    [][Called("get_printer_errors")
       => (/\ requests' = Append(requests, "~HQES")
           /\ raised' = ParsedErrors(call'.response).raised
           /\ ret' = ParsedErrors(call'.response).ret
           /\ _info' = _info /\ _cfg' = _cfg /\ _stat' = _stat)]_vars

-----------------------------------------------------------------------------
(* Spec, continued: the blocks of a finalized document and the buffer      *)
(* after a call that raised.                                               *)

\* the number of calls of op among the first n calls
CallCount(op, n) == Cardinality({k \in 1..n : calls[k] = op})

C18_FailedCallKeepsBuffer ==
    [][(Len(calls') = Len(calls) + 1 /\ raised' # "none") => code' = code]_vars

-----------------------------------------------------------------------------
(* TCPPrinter.request_info: one call, step by step, against a peer that    *)
(* may answer, stay silent, or close the connection.                       *)

\* the most bytes the peer sends in answer to one request
MaxBytes == 4

\* what one recv may return from a peer that is sending: one or two bytes
Chunks ==
    UNION {[1..n -> {"a", "b", ETX}] : n \in 1..2}

\* request_info(command) is called on a connected TCPPrinter
InitSocket ==
    /\ buf = <<>>
    /\ peer = "open"
    /\ sock_pc = "sendall"
    /\ sent = 0
    /\ call = [op |-> "request_info", command |-> "~HS"]
    /\ calls = <<"request_info">>
    /\ raised = "none"
    /\ ret = None
    /\ Printer__init__
    /\ code = <<>>
    /\ height = 0
    /\ width = 0
    /\ dpmm = 0
    /\ zpl_data = <<>>
    /\ i = 0
    /\ zipped_data = <<>>
    /\ pc = "idle"

\* what a step of request_info leaves alone
SocketFrame ==
    UNCHANGED <<code, height, width, dpmm, call, calls, codecVars, printerVars>>

\* self.socket.sendall(command.encode('utf-8')) returns; buf = b""
SendAll ==
    /\ sock_pc = "sendall"
    /\ sent' = sent + 1
    /\ buf' = <<>>
    /\ sock_pc' = "while"
    /\ UNCHANGED <<peer, raised, ret>>
    /\ SocketFrame

\* sendall raises socket.timeout, which is raised again
SendAllTimeout ==
    /\ sock_pc = "sendall"
    /\ sent' = sent + 1
    /\ raised' = "socket.timeout"
    /\ sock_pc' = "raised"
    /\ UNCHANGED <<buf, peer, ret>>
    /\ SocketFrame

\* while b'\x03' not in buf: the test fails and buf is returned
WhileExit ==
    /\ sock_pc = "while"
    /\ \E k \in 1..Len(buf) : buf[k] = ETX
    /\ ret' = buf
    /\ sock_pc' = "returned"
    /\ UNCHANGED <<buf, peer, sent, raised>>
    /\ SocketFrame

\* while b'\x03' not in buf: the test holds and the body is entered
WhileEnter ==
    /\ sock_pc = "while"
    /\ ~ \E k \in 1..Len(buf) : buf[k] = ETX
    /\ sock_pc' = "recv"
    /\ UNCHANGED <<buf, peer, sent, raised, ret>>
    /\ SocketFrame

\* buf += self.socket.recv(4096): the peer has sent a chunk
RecvData ==
    /\ sock_pc = "recv"
    /\ peer = "open"
    /\ \E chunk \in Chunks :
          /\ Len(buf) + Len(chunk) <= MaxBytes
          /\ buf' = buf \o chunk
    /\ sock_pc' = "while"
    /\ UNCHANGED <<peer, sent, raised, ret>>
    /\ SocketFrame

\* recv raises socket.timeout: the peer stayed silent for socket_timeout
RecvTimeout ==
    /\ sock_pc = "recv"
    /\ peer = "open"
    /\ raised' = "socket.timeout"
    /\ sock_pc' = "raised"
    /\ UNCHANGED <<buf, peer, sent, ret>>
    /\ SocketFrame

\* buf += self.socket.recv(4096): the peer has closed the connection and
\* recv returns b'' at once
RecvClosed ==
    /\ sock_pc = "recv"
    /\ peer = "closed"
    /\ buf' = buf \o <<>>
    /\ sock_pc' = "while"
    /\ UNCHANGED <<peer, sent, raised, ret>>
    /\ SocketFrame

\* the peer closes the connection while the call is running
PeerCloses ==
    /\ sock_pc \in {"while", "recv"}
    /\ peer = "open"
    /\ peer' = "closed"
    /\ UNCHANGED <<buf, sock_pc, sent, raised, ret>>
    /\ SocketFrame

\* the steps of the thread that runs request_info
RequestStep ==
    \/ SendAll
    \/ SendAllTimeout
    \/ WhileExit
    \/ WhileEnter
    \/ RecvData
    \/ RecvTimeout
    \/ RecvClosed

NextSocket ==
    \/ SendAll
    \/ SendAllTimeout
    \/ WhileExit
    \/ WhileEnter
    \/ RecvData
    \/ RecvTimeout
    \/ RecvClosed
    \/ PeerCloses

\* the thread in request_info keeps running: a step it can take is taken
SpecSocket == InitSocket /\ [][NextSocket]_vars /\ WF_vars(RequestStep)

\* C20: every request_info call completes, whatever the peer does: the
\* command is sent once and never again, and the call returns bytes that
\* hold \x03 or raises.
C20_RequestCompletes ==
    /\ [](sent <= 1)
    /\ [](sock_pc = "returned"
            => (sent = 1 /\ \E k \in 1..Len(ret) : ret[k] = ETX))
    /\ <>(sock_pc \in {"returned", "raised"})

====
